---- MODULE Spec2Model ----
(***************************************************************************)
(* Model of the Code Nexus pipeline (ex2/nexus_pipeline.py) and of the     *)
(* SensorStream aggregator (ex1/data_stream.py).                           *)
(*                                                                         *)
(* Python values are encoded as records of one shape, so that any two of   *)
(* them can be compared:                                                   *)
(*   t = "dict"  : m is the mapping (key -> rendered value or "absent")    *)
(*   t = "str"   : s is the text, a sequence of characters                 *)
(*   t = "list"  : l is the sequence of elements                           *)
(*   t = "other" : o names a value that is none of the above (None, 42)    *)
(*   t = "raise" : an exception propagating out of a call                  *)
(***************************************************************************)
EXTENDS Integers, Sequences, FiniteSets, TLC

VARIABLES
    pipelines,    \* NexusManager.pipelines: the registered adapters, in order
    adapter,      \* an adapter object used on its own: [format_type, stages]
    payload,      \* the payload object the caller holds
    last,         \* record of the latest call and of what it did
    seen,         \* the earliest run since a stage list or the payload last
                  \* changed: which adapter ran, what it returned, and whether
                  \* another adapter has run since
    stream,       \* the SensorStream object's fields
    batches,      \* what process_batch has been given so far
    msg           \* what the latest SensorStream call returned

vars == <<pipelines, adapter, payload, last, seen, stream, batches, msg>>

----------------------------------------------------------------------------
(* Bounds *)

MaxText == 3
MaxList == 3
MaxStages == 2
MaxPipelines == 2
MaxStageAdds == 1
MaxBatch == 1
MaxCalls == 2

----------------------------------------------------------------------------
(* Python values *)

Keys == {"sensor", "value", "unit", "_validated", "_metadata_added"}

KeyVals(k) ==
    CASE k = "sensor" -> {"absent", "temp"}
      [] k = "value" -> {"absent", "23.5"}
      [] k = "unit" -> {"absent", "C"}
      [] k = "_validated" -> {"absent", "True", "False"}
      [] OTHER -> {"absent", "False"}

NoMap == [k \in Keys |-> "absent"]

Dict(m) == [t |-> "dict", m |-> m, s |-> <<>>, l |-> <<>>, o |-> ""]
Str(s) == [t |-> "str", m |-> NoMap, s |-> s, l |-> <<>>, o |-> ""]
List(l) == [t |-> "list", m |-> NoMap, s |-> <<>>, l |-> l, o |-> ""]
Other(o) == [t |-> "other", m |-> NoMap, s |-> <<>>, l |-> <<>>, o |-> o]
Raised == [t |-> "raise", m |-> NoMap, s |-> <<>>, l |-> <<>>, o |-> "OverflowError"]

\* List elements: an int, a float (both with a small integral value n), a
\* string, or an int too large to be converted to a float ("huge", 10**400).
IntE(n) == [k |-> "int", n |-> n]
FloatE(n) == [k |-> "float", n |-> n]
StrE == [k |-> "str", n |-> 0]
HugeE == [k |-> "huge", n |-> 0]

Elems == {IntE(-1), IntE(0), FloatE(2), StrE, HugeE}

Chars == {"a", " ", "\n"}

SeqsUpTo(S, n) == UNION {[1..i -> S] : i \in 0..n}

Maps == {m \in [Keys -> {"absent", "temp", "23.5", "C", "True", "False"}] :
            \A k \in Keys : m[k] \in KeyVals(k)}

Texts == SeqsUpTo(Chars, MaxText)
Lists == SeqsUpTo(Elems, MaxList)
Others == {Other("None"), Other("42")}

Payloads == {Dict(m) : m \in Maps} \cup {Str(s) : s \in Texts}
            \cup {List(l) : l \in Lists} \cup Others

----------------------------------------------------------------------------
(* Text helpers: str.strip, str.upper, str.split, as Python computes them *)

IsSpace(c) == c \in {" ", "\n"}

RECURSIVE LStrip(_)
LStrip(s) == IF s # <<>> /\ IsSpace(Head(s)) THEN LStrip(Tail(s)) ELSE s

RECURSIVE RStrip(_)
RStrip(s) ==
    IF s # <<>> /\ IsSpace(s[Len(s)]) THEN RStrip(SubSeq(s, 1, Len(s) - 1)) ELSE s

\* str.strip(): leading and trailing whitespace removed
Strip(s) == RStrip(LStrip(s))

UpperChar(c) == IF c = "a" THEN "A" ELSE c

\* str.upper()
Upper(s) == [i \in 1..Len(s) |-> UpperChar(s[i])]

\* str.split(sep): the pieces between the separators, empty pieces kept
RECURSIVE SplitFrom(_, _, _, _)
SplitFrom(s, sep, i, cur) ==
    IF i > Len(s) THEN <<cur>>
    ELSE IF s[i] = sep THEN <<cur>> \o SplitFrom(s, sep, i + 1, <<>>)
    ELSE SplitFrom(s, sep, i + 1, Append(cur, s[i]))

Split(s, sep) == SplitFrom(s, sep, 1, <<>>)

----------------------------------------------------------------------------
(* Stages.  A stage call returns                                          *)
(*   out  : the value returned                                            *)
(*   inp  : the argument object as the call leaves it                     *)
(*   same : whether the returned object is the argument object itself     *)

NoConst == Other("")

BuiltinStages == {[name |-> n, c |-> NoConst] :
                     n \in {"InputStage", "TransformStage", "OutputStage"}}

\* Stages supplied by the caller (any object with a process method): here
\* the ones that return a fixed value whatever they are given.
ConstVals == {Str(<<"a", "\n", "a", "\n", "a">>)}
UserStages == {[name |-> "Const", c |-> v] : v \in ConstVals}

Stages == BuiltinStages \cup UserStages

InputStage(data) == [out |-> data, inp |-> data, same |-> TRUE]

IsNumber(x) == x.k \in {"int", "float", "huge"}

\* float(item) for each numeric item; float() of an int beyond the float
\* range raises OverflowError
ToFloats(l) ==
    IF \E i \in 1..Len(l) : l[i].k = "huge" THEN Raised
    ELSE List([i \in 1..Len(l) |->
                 IF IsNumber(l[i]) THEN FloatE(l[i].n) ELSE l[i]])

\* A TransformStage that sets the markers on the mapping it was given
TransformStageInPlace(data) ==
    IF data.t = "dict"
    THEN LET d == Dict([k \in Keys |->
                          IF k \in {"_validated", "_metadata_added"}
                          THEN "True" ELSE data.m[k]])
         IN  [out |-> d, inp |-> d, same |-> TRUE]
    ELSE [out |-> data, inp |-> data, same |-> TRUE]

\* A TransformStage that rejects what it does not recognize
TransformStageStrict(data) ==
    IF data.t = "other" THEN [out |-> Raised, inp |-> data, same |-> FALSE]
    ELSE [out |-> data, inp |-> data, same |-> TRUE]

TransformStage(data) ==
    CASE data.t = "dict" ->
            [out |-> Dict([k \in Keys |->
                             IF k \in {"_validated", "_metadata_added"}
                             THEN "True" ELSE data.m[k]]),
             inp |-> data, same |-> FALSE]
      [] data.t = "str" ->
            [out |-> Str(Upper(Strip(data.s))), inp |-> data, same |-> FALSE]
      [] data.t = "list" ->
            [out |-> ToFloats(data.l), inp |-> data, same |-> FALSE]
      [] OTHER -> [out |-> data, inp |-> data, same |-> TRUE]

OutputStage(data) == [out |-> data, inp |-> data, same |-> TRUE]

ConstStage(stage, data) == [out |-> stage.c, inp |-> data, same |-> FALSE]

\* stage.process(result)
StageProcess(stage, data) ==
    CASE stage.name = "InputStage" -> InputStage(data)
      [] stage.name = "TransformStage" -> TransformStage(data)
      [] stage.name = "OutputStage" -> OutputStage(data)
      [] OTHER -> ConstStage(stage, data)

\* result = data; for stage in self.stages: result = stage.process(result)
\*   result : the folded value       data  : the caller's object afterwards
\*   alias  : result is that object   calls : the stage calls made, in order
RECURSIVE RunFrom(_, _, _)
RunFrom(stages, i, acc) ==
    IF i > Len(stages) \/ acc.result = Raised THEN acc
    ELSE LET r == StageProcess(stages[i], acc.result)
         IN  RunFrom(stages, i + 1,
                     [result |-> r.out,
                      data |-> IF acc.alias THEN r.inp ELSE acc.data,
                      alias |-> acc.alias /\ r.same,
                      calls |-> Append(acc.calls,
                                       [stage |-> stages[i],
                                        inp |-> acc.result,
                                        out |-> r.out])])

\* A fold that starts from nothing when there is no stage
RunStagesNoSeed(stages, data) ==
    IF stages = <<>>
    THEN [result |-> Other("None"), data |-> data, alias |-> FALSE, calls |-> <<>>]
    ELSE RunFrom(stages, 1, [result |-> data, data |-> data, alias |-> TRUE,
                             calls |-> <<>>])

RunStages(stages, data) ==
    RunFrom(stages, 1, [result |-> data, data |-> data, alias |-> TRUE,
                        calls |-> <<>>])

----------------------------------------------------------------------------
(* Results of process: the text returned, by its template and arguments   *)
(*   "Processed" : x = <<sensor, value, unit>>                            *)
(*   "Logged"    : n = data_rows                                          *)
(*   "Summary"   : n = len(result), avg = the average in tenths           *)
(*   "str"       : val = the value str() was applied to                   *)
(*   "empty"     : ""            "raise" : an exception instead           *)

Out(kind, n, avg, x, val) == [kind |-> kind, n |-> n, avg |-> avg, x |-> x, val |-> val]

NoVal == Other("")
StrOf(v) == Out("str", 0, 0, <<>>, v)
Empty == Out("empty", 0, 0, <<>>, NoVal)
Raise == Out("raise", 0, 0, <<>>, NoVal)

\* num/den rounded to the nearest integer, ties to even, as the '.1f'
\* format rounds the tenths of a float
RoundHalfEven(num, den) ==
    LET q == num \div den
        r == num - q * den
    IN  IF 2 * r < den THEN q
        ELSE IF 2 * r > den THEN q + 1
        ELSE IF q % 2 = 0 THEN q ELSE q + 1

RECURSIVE Sum(_)
Sum(l) == IF l = <<>> THEN 0 ELSE Head(l).n + Sum(Tail(l))

JSONFinalize(data, result) ==
    IF result.t = "dict" /\ result.m["sensor"] # "absent"
    THEN Out("Processed", 0, 0,
             <<result.m["sensor"],
               IF result.m["value"] = "absent" THEN "0" ELSE result.m["value"],
               IF result.m["unit"] = "absent" THEN "" ELSE result.m["unit"]>>,
             NoVal)
    ELSE StrOf(result)

\* A CSV finalizer that counts the lines of the payload as given
CSVFinalizeRaw(data, result) ==
    IF data.t = "str"
    THEN Out("Logged", Len(Split(data.s, "\n")) - 1, 0, <<>>, NoVal)
    ELSE StrOf(result)

\* A CSV finalizer that looks at the folded result only
CSVFinalizeFolded(data, result) ==
    IF result.t = "str"
    THEN Out("Logged", Len(Split(Strip(result.s), "\n")) - 1, 0, <<>>, NoVal)
    ELSE StrOf(result)

CSVFinalize(data, result) ==
    IF data.t = "str"
    THEN LET lines == Split(Strip(data.s), "\n")
         IN  IF Len(lines) > 0
             THEN Out("Logged", Len(lines) - 1, 0, <<>>, NoVal)
             ELSE StrOf(result)
    ELSE StrOf(result)

StreamFinalize(data, result) ==
    IF result.t = "list"
    THEN LET numeric == \A i \in 1..Len(result.l) : IsNumber(result.l[i])
             huge == \E i \in 1..Len(result.l) : result.l[i].k = "huge"
             total == IF numeric THEN Sum(result.l) ELSE 0
         IN  IF numeric /\ huge THEN Raise
             ELSE Out("Summary", Len(result.l),
                      IF Len(result.l) > 0
                      THEN RoundHalfEven(10 * total, Len(result.l)) ELSE 0,
                      <<>>, NoVal)
    ELSE StrOf(result)

FormatTypes == {"JSON", "CSV", "Stream"}

Finalize(format_type, data, result) ==
    CASE format_type = "JSON" -> JSONFinalize(data, result)
      [] format_type = "CSV" -> CSVFinalize(data, result)
      [] OTHER -> StreamFinalize(data, result)

\* adapter.process(data): out, and what the call did
Process(self, data) ==
    LET run == RunStages(self.stages, data)
    IN  [out |-> IF run.result = Raised THEN Raise
                 ELSE Finalize(self.format_type, run.data, run.result),
         result |-> run.result,
         after |-> run.data,
         self |-> self,
         calls |-> run.calls]

----------------------------------------------------------------------------
(* The record of a call *)

NoStage == [name |-> "", c |-> NoConst]
NoAdapter == [format_type |-> "", stages |-> <<>>]

NoCall ==
    [op |-> "none", tag |-> "", stage |-> NoStage, target |-> NoAdapter,
     ran |-> <<>>, before |-> NoVal, after |-> NoVal, result |-> NoVal,
     out |-> Empty, calls |-> <<>>, regBefore |-> <<>>, again |-> FALSE]

NoRun == [i |-> 0, out |-> Empty, others |-> FALSE]

\* A reading given to SensorStream is a non-string item or a string, written
\* as the sequence of its pieces: "temp:", ",", a two-digit number, or
\* other text ("x").
Item(k, s) == [k |-> k, s |-> s]

Readings ==
    {Item("int", <<>>),
     Item("str", <<"temp:", "20">>),
     Item("str", <<"x", "temp:", "30", ",", "x">>),
     Item("str", <<"temp:", "x">>),
     Item("str", <<"temp:", "10", "temp:", "x">>)}

\* the calls of process_batch so far, and how often each reading was given
NoFed == [calls |-> 0, fed |-> [r \in Readings |-> 0]]

NoStream == [total_items |-> 0, processed_count |-> 0,
             temperature_sum |-> 0, temperature_count |-> 0]
NoMsg == [op |-> "none", len |-> 0, n |-> 0, avg |-> 0]

----------------------------------------------------------------------------
(* A stage called on its own *)

InitStage ==
    /\ pipelines = <<>>
    /\ adapter = NoAdapter
    /\ payload \in Payloads
    /\ last = NoCall
    /\ seen = NoRun
    /\ stream = NoStream
    /\ batches = NoFed
    /\ msg = NoMsg

StageCall(stage) ==
    /\ last.op = "none"
    /\ LET r == StageProcess(stage, payload)
       IN  /\ payload' = r.inp
           /\ last' = [NoCall EXCEPT !.op = "stage", !.stage = stage,
                                     !.before = payload, !.after = r.inp,
                                     !.result = r.out]
    /\ UNCHANGED <<pipelines, adapter, seen, stream, batches, msg>>

NextStage == \E stage \in Stages : StageCall(stage)

SpecStage == InitStage /\ [][NextStage]_vars

----------------------------------------------------------------------------
(* One adapter used on its own: add_stage and process *)

InitAdapter ==
    /\ pipelines = <<>>
    /\ adapter \in {[format_type |-> ft, stages |-> <<>>] : ft \in FormatTypes}
    /\ payload \in Payloads
    /\ last = NoCall
    /\ seen = NoRun
    /\ stream = NoStream
    /\ batches = NoFed
    /\ msg = NoMsg

\* ProcessingPipeline.add_stage
add_stage(a, stage) == [a EXCEPT !.stages = Append(@, stage)]

AdapterAddStage(stage) ==
    /\ Len(adapter.stages) < MaxStages
    /\ adapter' = add_stage(adapter, stage)
    /\ last' = [NoCall EXCEPT !.op = "add_stage", !.stage = stage]
    /\ UNCHANGED <<pipelines, payload, seen, stream, batches, msg>>

AdapterProcess ==
    /\ last.op # "process"
    /\ LET r == Process(adapter, payload)
       IN  /\ payload' = r.after
           /\ last' = [NoCall EXCEPT !.op = "process", !.target = adapter,
                                     !.before = payload, !.after = r.after,
                                     !.result = r.result, !.out = r.out,
                                     !.calls = r.calls]
    /\ adapter' = Process(adapter, payload).self
    /\ UNCHANGED <<pipelines, seen, stream, batches, msg>>

NextAdapter ==
    \/ \E stage \in Stages : AdapterAddStage(stage)
    \/ AdapterProcess

SpecAdapter == InitAdapter /\ [][NextAdapter]_vars

----------------------------------------------------------------------------
(* The manager: add_pipeline, add_stage on a registered adapter, and the  *)
(* two ways of running an adapter                                         *)

NexusPayloads ==
    {Dict([NoMap EXCEPT !["sensor"] = "temp"]),
     Str(<<"a", "\n", "a">>),
     List(<<IntE(-1), FloatE(2)>>)}

Tags == FormatTypes \cup {"XML"}

\* NexusManager.add_pipeline
add_pipeline(reg, a) == Append(reg, a)

\* A lookup that lets the latest registration win
RECURSIVE ScanBack(_, _, _, _)
ScanBack(reg, pipeline_type, data, i) ==
    IF i < 1
    THEN [out |-> Empty, ran |-> <<>>, after |-> data, reg |-> reg]
    ELSE IF reg[i].format_type = pipeline_type
    THEN LET r == Process(reg[i], data)
         IN  [out |-> r.out, ran |-> <<i>>, after |-> r.after,
              reg |-> [reg EXCEPT ![i] = r.self]]
    ELSE ScanBack(reg, pipeline_type, data, i - 1)

LastMatchWins(reg, pipeline_type, data) ==
    ScanBack(reg, pipeline_type, data, Len(reg))

\* A lookup that falls back on the first adapter when no tag matches
RECURSIVE ScanOrFirst(_, _, _, _)
ScanOrFirst(reg, pipeline_type, data, i) ==
    IF i > Len(reg)
    THEN IF reg = <<>>
         THEN [out |-> Empty, ran |-> <<>>, after |-> data, reg |-> reg]
         ELSE LET r == Process(reg[1], data)
              IN  [out |-> r.out, ran |-> <<1>>, after |-> r.after,
                   reg |-> [reg EXCEPT ![1] = r.self]]
    ELSE IF reg[i].format_type = pipeline_type
    THEN LET r == Process(reg[i], data)
         IN  [out |-> r.out, ran |-> <<i>>, after |-> r.after,
              reg |-> [reg EXCEPT ![i] = r.self]]
    ELSE ScanOrFirst(reg, pipeline_type, data, i + 1)

FallBackOnFirst(reg, pipeline_type, data) ==
    ScanOrFirst(reg, pipeline_type, data, 1)

\* for pipeline in self.pipelines: if pipeline.format_type == pipeline_type:
\*     return pipeline.process(data)
RECURSIVE Scan(_, _, _, _)
Scan(reg, pipeline_type, data, i) ==
    IF i > Len(reg)
    THEN [out |-> Empty, ran |-> <<>>, after |-> data, reg |-> reg]
    ELSE IF reg[i].format_type = pipeline_type
    THEN LET r == Process(reg[i], data)
         IN  [out |-> r.out, ran |-> <<i>>, after |-> r.after,
              reg |-> [reg EXCEPT ![i] = r.self]]
    ELSE Scan(reg, pipeline_type, data, i + 1)

\* NexusManager.process_with_pipeline
process_with_pipeline(reg, pipeline_type, data) == Scan(reg, pipeline_type, data, 1)

RECURSIVE StageCount(_)
StageCount(reg) ==
    IF reg = <<>> THEN 0 ELSE Len(Head(reg).stages) + StageCount(Tail(reg))

Init ==
    /\ pipelines = <<>>
    /\ adapter = NoAdapter
    /\ payload \in NexusPayloads
    /\ last = NoCall
    /\ seen = NoRun
    /\ stream = NoStream
    /\ batches = NoFed
    /\ msg = NoMsg

\* an adapter is constructed and registered
AddPipeline(ft) ==
    /\ Len(pipelines) < MaxPipelines
    /\ pipelines' = add_pipeline(pipelines, [format_type |-> ft, stages |-> <<>>])
    /\ last' = [NoCall EXCEPT !.op = "add_pipeline", !.tag = ft]
    /\ UNCHANGED <<adapter, payload, seen, stream, batches, msg>>

AddStage(i, stage) ==
    /\ StageCount(pipelines) < MaxStageAdds
    /\ pipelines' = [pipelines EXCEPT ![i] = add_stage(@, stage)]
    /\ seen' = NoRun
    /\ last' = [NoCall EXCEPT !.op = "add_stage", !.stage = stage]
    /\ UNCHANGED <<adapter, payload, stream, batches, msg>>

\* the caller turns to another payload
SetPayload(p) ==
    /\ p # payload
    /\ payload' = p
    /\ seen' = NoRun
    /\ last' = [NoCall EXCEPT !.op = "payload"]
    /\ UNCHANGED <<pipelines, adapter, stream, batches, msg>>

Ran(op, tag, r) ==
    /\ pipelines' = r.reg
    /\ payload' = r.after
    /\ last' = [NoCall EXCEPT !.op = op, !.tag = tag, !.ran = r.ran,
                              !.before = payload, !.after = r.after,
                              !.out = r.out, !.regBefore = pipelines,
                              !.again = (r.ran = <<seen.i>>)]
    /\ seen' = IF r.ran = <<>> THEN seen
               ELSE IF seen.i = 0
               THEN [i |-> r.ran[1], out |-> r.out, others |-> FALSE]
               ELSE IF r.ran = <<seen.i>> THEN seen
               ELSE [seen EXCEPT !.others = TRUE]
    /\ UNCHANGED <<adapter, stream, batches, msg>>

ProcessWithPipeline(tag) ==
    Ran("process_with_pipeline", tag, process_with_pipeline(pipelines, tag, payload))

\* the caller runs a registered adapter itself
DirectProcess(i) ==
    LET r == Process(pipelines[i], payload)
    IN  Ran("process", pipelines[i].format_type,
            [out |-> r.out, ran |-> <<i>>, after |-> r.after,
             reg |-> [pipelines EXCEPT ![i] = r.self]])

Next ==
    \/ \E ft \in FormatTypes : AddPipeline(ft)
    \/ \E i \in 1..Len(pipelines), stage \in BuiltinStages : AddStage(i, stage)
    \/ \E p \in NexusPayloads : SetPayload(p)
    \/ \E tag \in Tags : ProcessWithPipeline(tag)
    \/ \E i \in 1..Len(pipelines) : DirectProcess(i)

Spec == Init /\ [][Next]_vars

----------------------------------------------------------------------------
(* SensorStream *)

Numbers == {"10", "20", "30"}

NumVal(tok) == CASE tok = "10" -> 10 [] tok = "20" -> 20 [] OTHER -> 30

Batches == SeqsUpTo(Readings, MaxBatch)

\* "temp:" in reading
HasTemp(reading) == \E i \in 1..Len(reading.s) : reading.s[i] = "temp:"

\* the decimal number the digits spell
RECURSIVE DecVal(_)
DecVal(seg) ==
    IF seg = <<>> THEN 0
    ELSE 100 * DecVal(SubSeq(seg, 1, Len(seg) - 1)) + NumVal(seg[Len(seg)])

\* float(reading.split("temp:")[1].split(",")[0]); ok is FALSE where float
\* raises ValueError
ParseTemp(reading) ==
    LET seg == Split(Split(reading.s, "temp:")[2], ",")[1]
    IN  [ok |-> seg # <<>> /\ \A i \in 1..Len(seg) : seg[i] \in Numbers,
         val |-> IF seg # <<>> /\ \A i \in 1..Len(seg) : seg[i] \in Numbers
                 THEN DecVal(seg) ELSE 0]

Counted(reading) ==
    reading.k = "str" /\ HasTemp(reading) /\ ParseTemp(reading).ok

\* the for loop of process_batch
RECURSIVE Accumulate(_, _)
Accumulate(self, data_batch) ==
    IF data_batch = <<>> THEN self
    ELSE LET reading == Head(data_batch)
             next == IF Counted(reading)
                     THEN [self EXCEPT
                             !.temperature_sum = @ + ParseTemp(reading).val,
                             !.temperature_count = @ + 1]
                     ELSE self
         IN  Accumulate(next, Tail(data_batch))

\* A process_batch that averages the batch it was given only
process_batch_per_batch(self, data_batch) ==
    LET mine == Accumulate([self EXCEPT !.temperature_sum = 0,
                                        !.temperature_count = 0], data_batch)
        after == Accumulate([self EXCEPT !.total_items = @ + Len(data_batch)],
                            data_batch)
    IN  [self |-> after,
         n |-> Len(data_batch),
         avg |-> IF mine.temperature_count > 0
                 THEN RoundHalfEven(10 * mine.temperature_sum,
                                    mine.temperature_count)
                 ELSE 0]

\* SensorStream.process_batch: the object afterwards, and the two numbers
\* of the message (avg in tenths, as '.1f' renders it)
process_batch(self, data_batch) ==
    LET after == Accumulate([self EXCEPT !.total_items = @ + Len(data_batch)],
                            data_batch)
    IN  [self |-> after,
         n |-> Len(data_batch),
         avg |-> IF after.temperature_count > 0
                 THEN RoundHalfEven(10 * after.temperature_sum,
                                    after.temperature_count)
                 ELSE 0]

\* criteria.lower() in str(item).lower(), for a criteria that is one piece
Contains(item, criteria) == \E i \in 1..Len(item.s) : item.s[i] = criteria

\* temp > 25.0 or temp < 15.0, for a reading float() accepts
Critical(item) ==
    /\ item.k = "str"
    /\ HasTemp(item)
    /\ ParseTemp(item).ok
    /\ (ParseTemp(item).val > 25 \/ ParseTemp(item).val < 15)

Criteria == {"None", "high-priority", "x"}

Keeps(item, criteria) ==
    IF criteria = "high-priority" THEN Critical(item)
    ELSE Contains(item, criteria)

RECURSIVE Select(_, _)
Select(data_batch, criteria) ==
    IF data_batch = <<>> THEN <<>>
    ELSE (IF Keeps(Head(data_batch), criteria) THEN <<Head(data_batch)>> ELSE <<>>)
         \o Select(Tail(data_batch), criteria)

\* SensorStream.filter_data, with DataStream.filter_data behind it
filter_data(self, data_batch, criteria) ==
    IF criteria = "None" THEN data_batch ELSE Select(data_batch, criteria)

\* DataStream.get_stats
get_stats(self) ==
    [processed_count |-> self.processed_count, total_items |-> self.total_items]

InitSensor ==
    /\ pipelines = <<>>
    /\ adapter = NoAdapter
    /\ payload = NoVal
    /\ last = NoCall
    /\ seen = NoRun
    /\ stream = NoStream
    /\ batches = NoFed
    /\ msg = NoMsg

Occurrences(batch, r) == Cardinality({i \in 1..Len(batch) : batch[i] = r})

ProcessBatch(data_batch) ==
    /\ batches.calls < MaxCalls
    /\ LET r == process_batch(stream, data_batch)
       IN  /\ stream' = r.self
           /\ msg' = [op |-> "process_batch", len |-> Len(data_batch),
                      n |-> r.n, avg |-> r.avg]
    /\ batches' = [calls |-> batches.calls + 1,
                   fed |-> [r \in Readings |->
                              batches.fed[r] + Occurrences(data_batch, r)]]
    /\ UNCHANGED <<pipelines, adapter, payload, last, seen>>

\* filter_data returns a list and assigns nothing; msg keeps its length
FilterData(data_batch, criteria) ==
    /\ msg' = [op |-> "filter_data", len |-> Len(data_batch),
               n |-> Len(filter_data(stream, data_batch, criteria)), avg |-> 0]
    /\ UNCHANGED <<pipelines, adapter, payload, last, seen, stream, batches>>

GetStats ==
    /\ msg' = [op |-> "get_stats", len |-> 0,
               n |-> get_stats(stream).total_items, avg |-> 0]
    /\ UNCHANGED <<pipelines, adapter, payload, last, seen, stream, batches>>

NextSensor ==
    \/ \E b \in Batches : ProcessBatch(b)
    \/ \E b \in Batches, c \in Criteria : FilterData(b, c)
    \/ GetStats

SpecSensor == InitSensor /\ [][NextSensor]_vars

----------------------------------------------------------------------------
(* Properties of the stages (SpecStage) *)

Markers == {"_validated", "_metadata_added"}

TransformedMapping ==
    /\ last.op = "stage"
    /\ last.stage.name = "TransformStage"
    /\ last.before.t = "dict"

\* C6 as stated: TransformStage on a mapping returns a mapping with both
\* markers true in which every key of the input keeps the input's value,
\* a marker key included, and leaves the input mapping as it was.
C6_EveryKeyKept ==
    TransformedMapping =>
        /\ last.result.t = "dict"
        /\ \A k \in Markers : last.result.m[k] = "True"
        /\ \A k \in Keys : last.before.m[k] # "absent"
                              => last.result.m[k] = last.before.m[k]
        /\ last.after = last.before

\* C6 amended: TransformStage on a mapping returns a mapping with both
\* markers true (a marker already present with another value is replaced)
\* in which every other key of the input keeps the input's value, and
\* leaves the input mapping as it was.
C6_OtherKeysKept ==
    TransformedMapping =>
        /\ last.result.t = "dict"
        /\ \A k \in Markers : last.result.m[k] = "True"
        /\ \A k \in Keys \ Markers : last.before.m[k] # "absent"
                              => last.result.m[k] = last.before.m[k]
        /\ last.after = last.before

C6_Witness ==
    /\ TransformedMapping
    /\ last.before.m["_validated"] = "False"
    /\ last.before.m["sensor"] = "temp"

Unrecognized ==
    /\ last.op = "stage"
    /\ \/ last.stage.name \in {"InputStage", "OutputStage"}
       \/ last.stage.name = "TransformStage" /\ last.before.t = "other"

\* C7: a built-in stage given a payload whose shape it does not recognize
\* (TransformStage: not a mapping, text or list; InputStage, OutputStage:
\* any payload) returns a value equal to its input and does not raise.
C7_IdentityOnUnrecognized ==
    Unrecognized => last.result = last.before /\ last.result # Raised

C7_Witness ==
    /\ last.op = "stage"
    /\ last.stage.name = "TransformStage"
    /\ last.before = Other("42")

----------------------------------------------------------------------------
(* Properties of one adapter (SpecAdapter) *)

Processed == last.op = "process"

BuiltinOnly(stages) == \A i \in 1..Len(stages) : stages[i] \in BuiltinStages

IdentityOnly(stages) ==
    \A i \in 1..Len(stages) : stages[i].name \in {"InputStage", "OutputStage"}

\* the stage calls made are the stages in the order added, each fed the
\* output of the one before it, as far as the calls go
Chained(c) ==
    /\ Len(c.calls) <= Len(c.target.stages)
    /\ \A i \in 1..Len(c.calls) :
          /\ c.calls[i].stage = c.target.stages[i]
          /\ c.calls[i].inp = (IF i = 1 THEN c.before ELSE c.calls[i - 1].out)
          /\ c.calls[i].out = StageProcess(c.target.stages[i], c.calls[i].inp).out
    /\ c.result = (IF c.calls = <<>> THEN c.before
                   ELSE c.calls[Len(c.calls)].out)

\* a stage that raises ends the fold: process raises, and no later stage
\* is applied; otherwise every stage has been applied
FoldedInOrder(c) ==
    /\ Chained(c)
    /\ IF c.result = Raised
       THEN /\ c.out = Raise
            /\ c.calls # <<>>
            /\ \A i \in 1..(Len(c.calls) - 1) : c.calls[i].out # Raised
       ELSE Len(c.calls) = Len(c.target.stages)

\* C3 as stated: process applies every stage once, in the order added,
\* each fed the output of the one before, and then applies the adapter's
\* finalizer to the folded result, not to the original payload.
C3_FinalizerOnFoldedResult ==
    Processed =>
        /\ FoldedInOrder(last)
        /\ last.result # Raised =>
              last.out = Finalize(last.target.format_type, last.result,
                                  last.result)

\* C3 amended: process applies the stages in the order added, each fed the
\* output of the one before, every stage once (a stage that raises ends the
\* call), and then applies the adapter's finalizer to the folded result,
\* except that CSVAdapter goes by the original payload: a text payload
\* gives the line count of that payload, any other payload the string form
\* of the folded result.
C3_FoldThenFinalize ==
    Processed =>
        /\ FoldedInOrder(last)
        /\ last.result # Raised =>
              last.out =
                 (IF last.target.format_type # "CSV"
                  THEN Finalize(last.target.format_type, last.result,
                                last.result)
                  ELSE IF last.before.t = "str"
                  THEN Out("Logged", Len(Split(Strip(last.before.s), "\n")) - 1,
                           0, <<>>, NoVal)
                  ELSE StrOf(last.result))

C3_Witness ==
    /\ Processed
    /\ last.target.format_type = "CSV"
    /\ last.before = Str(<<"a">>)
    /\ Len(last.calls) = 2
    /\ last.calls[1].stage.name = "Const"
    /\ last.calls[2].stage.name = "TransformStage"
    /\ last.out.kind = "Logged"
    /\ last.out.n = 0

StreamOnList ==
    /\ Processed
    /\ last.target.format_type = "Stream"
    /\ BuiltinOnly(last.target.stages)
    /\ last.before.t = "list"

AllNumeric(l) == \A i \in 1..Len(l) : IsNumber(l[i])
AnyHuge(l) == \E i \in 1..Len(l) : l[i].k = "huge"

\* tenths is a nearest multiple of 0.1 to total/n
NearestTenth(tenths, total, n) ==
    LET d == 10 * total - tenths * n
    IN  2 * d <= n /\ -2 * d <= n

StreamSummaryRight ==
    LET l == last.before.l
    IN  /\ last.out.kind = "Summary"
        /\ last.out.n = Len(l)
        /\ (l = <<>> => last.out.avg = 0)
        /\ (~AllNumeric(l) => last.out.avg = 0)
        /\ (l # <<>> /\ AllNumeric(l) /\ ~AnyHuge(l)
               => NearestTenth(last.out.avg, Sum(l), Len(l)))

\* C4: for every list given to StreamAdapter.process the reading count is
\* the list's length and the average is the mean of the elements to one
\* decimal when all are numeric, 0 when the list is empty, 0 when an
\* element is not numeric; and no such call raises.
C4_StreamAverageNeverRaises == StreamOnList => StreamSummaryRight

\* What holds of the code: the same, for lists that hold no int beyond the
\* float range.
C4_WithinFloatRange == StreamOnList /\ ~AnyHuge(last.before.l) => StreamSummaryRight

CSVOnText ==
    /\ Processed
    /\ last.target.format_type = "CSV"
    /\ last.before.t = "str"

\* C5 as stated: CSVAdapter.process on a text payload, whatever the stages,
\* reports N = the number of lines of the original payload split on line
\* breaks, minus one, also when the payload begins or ends with line
\* breaks or whitespace.
C5_RawLineCount ==
    CSVOnText =>
        last.out = Out("Logged", Len(Split(last.before.s, "\n")) - 1, 0, <<>>, NoVal)

\* C5 amended: CSVAdapter.process on a text payload, whatever the stages,
\* reports N = the number of lines of the original payload with its
\* leading and trailing whitespace removed, split on "\n", minus one.
C5_StrippedLineCount ==
    CSVOnText =>
        last.out = Out("Logged", Len(Split(Strip(last.before.s), "\n")) - 1,
                       0, <<>>, NoVal)

C5_Witness ==
    /\ CSVOnText
    /\ last.before = Str(<<"a", "\n", "a">>)
    /\ last.target.stages # <<>>
    /\ last.out.n = 1

\* C8: with no stage, or with identity stages only, process returns the
\* adapter's finalizer applied to the payload itself.
C8_EmptyPipeline ==
    Processed /\ IdentityOnly(last.target.stages) =>
        /\ last.result = last.before
        /\ last.out = Finalize(last.target.format_type, last.before, last.before)

C8_Witness ==
    /\ Processed
    /\ last.target.stages = <<>>
    /\ last.before.t = "dict"
    /\ last.out.kind = "Processed"

----------------------------------------------------------------------------
(* Properties of the manager (Spec) *)

Routed == last.op = "process_with_pipeline"

\* the positions of the registered adapters that carry the tag
Carrying(reg, tag) == {i \in 1..Len(reg) : reg[i].format_type = tag}

Earliest(S) == CHOOSE i \in S : \A j \in S : i <= j

\* C1: process_with_pipeline(tag, payload) returns what process(payload)
\* of the earliest-registered adapter carrying the tag returns, and runs no
\* other adapter; of two adapters with one tag the first registered one
\* handles every request.
C1_FirstRegisteredWins ==
    Routed /\ Carrying(last.regBefore, last.tag) # {} =>
        LET first == Earliest(Carrying(last.regBefore, last.tag))
        IN  /\ last.ran = <<first>>
            /\ last.out = Process(last.regBefore[first], last.before).out

C1_Witness ==
    /\ Routed
    /\ Len(last.regBefore) = 2
    /\ last.regBefore[1].format_type = last.tag
    /\ last.regBefore[2].format_type = last.tag
    /\ Process(last.regBefore[1], last.before).out
          # Process(last.regBefore[2], last.before).out
    /\ last.ran = <<1>>

\* C2: process_with_pipeline with a tag no registered adapter carries (the
\* registry may be empty) returns "" without raising, runs no adapter and
\* leaves the registry as it was.
C2_NoRouteReturnsEmpty ==
    Routed /\ Carrying(last.regBefore, last.tag) = {} =>
        /\ last.out = Empty
        /\ last.ran = <<>>
        /\ pipelines = last.regBefore
        /\ last.after = last.before

C2_Witness ==
    /\ Routed
    /\ Len(last.regBefore) = 2
    /\ Carrying(last.regBefore, last.tag) = {}
    /\ last.tag = "CSV"
    /\ last.out = Empty

RanOne == last.op \in {"process", "process_with_pipeline"} /\ last.ran # <<>>

\* C9: running an adapter built from the built-in stages changes neither a
\* stage list, nor the registry, nor the payload, and returns what the
\* adapter returned for that payload before, whatever other calls of
\* process and process_with_pipeline came in between.
C9_SameOutputAgain ==
    RanOne /\ BuiltinOnly(last.regBefore[last.ran[1]].stages) =>
        /\ pipelines = last.regBefore
        /\ last.after = last.before
        /\ payload = last.before
        /\ last.again => last.out = seen.out

C9_Witness ==
    /\ RanOne
    /\ last.again
    /\ seen.others
    /\ last.before.t = "dict"
    /\ last.regBefore[last.ran[1]].stages = <<[name |-> "TransformStage", c |-> NoConst]>>

----------------------------------------------------------------------------
(* Properties of SensorStream (SpecSensor) *)

\* the temperature each reading carries, read off the reading by hand;
\* -1 where it carries none that float() accepts
Carries(r) ==
    CASE r = Item("str", <<"temp:", "20">>) -> 20
      [] r = Item("str", <<"x", "temp:", "30", ",", "x">>) -> 30
      [] r = Item("str", <<"temp:", "10", "temp:", "x">>) -> 10
      [] OTHER -> -1

RECURSIVE Total(_, _, _)
Total(S, count, weight) ==
    IF S = {} THEN 0
    ELSE LET r == CHOOSE x \in S : TRUE
         IN  count[r] * weight[r] + Total(S \ {r}, count, weight)

One == [r \in Readings |-> 1]
Good == [r \in Readings |-> IF Carries(r) >= 0 THEN 1 ELSE 0]
Degrees == [r \in Readings |-> IF Carries(r) >= 0 THEN Carries(r) ELSE 0]

\* C10: total_items is the number of items in all batches given so far,
\* temperature_count the number of "temp:" readings among them that were
\* parsed; the message of the latest process_batch carries that batch's
\* length and the mean over all parsed readings since construction (0.0
\* when there is none); filter_data and get_stats leave the counters alone.
C10_RunningAverage ==
    /\ stream.total_items = Total(Readings, batches.fed, One)
    /\ stream.temperature_count = Total(Readings, batches.fed, Good)
    /\ msg.op = "process_batch" =>
          /\ msg.n = msg.len
          /\ IF stream.temperature_count = 0 THEN msg.avg = 0
             ELSE NearestTenth(msg.avg, Total(Readings, batches.fed, Degrees),
                               stream.temperature_count)

C10_Witness ==
    /\ msg.op = "process_batch"
    /\ batches.calls = 2
    /\ msg.len = 1
    /\ stream.total_items = 2
    /\ batches.fed[Item("str", <<"temp:", "20">>)] = 1
    /\ batches.fed[Item("str", <<"x", "temp:", "30", ",", "x">>)] = 1
    /\ msg.avg = 250

====
